---- MODULE Spec2Model ----
(***************************************************************************)
(* Model of loggerbot.py: the IRC logger bot that appends channel messages *)
(* to per-(channel, day) log files and, once at start-up and then at every *)
(* midnight, emails the files of every day between the persisted cursor    *)
(* (last_sent_day.txt) and yesterday, moving them to the archive.          *)
(*                                                                         *)
(* Threads: thread 0 is the reactor (main) thread, which runs the event    *)
(* handlers on_pubmsg and on_whoischannels; threads 1..MaxTimers are the   *)
(* daemon threads running midnight_loop, one started by every              *)
(* on_whoischannels event.                                                 *)
(***************************************************************************)
EXTENDS Integers, Sequences, FiniteSets, TLC

\* ------------------------------------------------------------------ bounds
\* Last calendar day of the explored horizon (days are numbered from 1).
MaxDay == 3
\* Largest number of log lines the two directories hold together: intake
\* accepts a message only while fewer are on disk.
MaxLines == 2
\* Largest number of midnight_loop threads (on_whoischannels events) per
\* process lifetime.
MaxTimers == 2

\* The channels messages arrive for: "#a", "#b" and "##a".
Channels == { <<"#", "a">>, <<"#", "b">>, <<"#", "#", "a">> }

\* get_last_sent_day's None, and the value of a local that is not bound.
NoDay == -1

\* last_sent_day.txt does not exist (os.path.isfile is False).
NoCursor == << >>

Main == 0
Timers == 1..MaxTimers
Procs == 0..MaxTimers

\* ------------------------------------------------------- pure functions
DigitChar == <<"0", "1", "2", "3", "4", "5", "6", "7", "8", "9">>

\* day.strftime('%Y-%m-%d'): a fixed-width, zero-padded date string
\* (two digits stand for the ten characters of the date).
DayStr(day) == << DigitChar[(day \div 10) + 1], DigitChar[(day % 10) + 1] >>

DigitVal(c) == (CHOOSE i \in 1..10 : DigitChar[i] = c) - 1

\* datetime.strptime(day_str, '%Y-%m-%d').date()
ParseDay(s) == DigitVal(s[1]) * 10 + DigitVal(s[2])

RECURSIVE StrReplace(_, _, _)
\* str.replace(old, new) for a one-character old and a new of length <= 1.
StrReplace(s, old, new) ==
    IF s = << >> THEN << >>
    ELSE (IF Head(s) = old THEN new ELSE << Head(s) >>)
         \o StrReplace(Tail(s), old, new)

\* channel.replace('#', '').replace('/', '_')
SafeChannel(channel) == StrReplace(StrReplace(channel, "#", << >>), "/", << "_" >>)

LogExt == << ".", "l", "o", "g" >>

\* f'{safe_channel}_{date_str}.log'
FileName(channel, date_str) == SafeChannel(channel) \o << "_" >> \o date_str \o LogExt

\* str.endswith
EndsWith(s, suffix) ==
    /\ Len(s) >= Len(suffix)
    /\ SubSeq(s, Len(s) - Len(suffix) + 1, Len(s)) = suffix

\* The day a log file name is stamped with (the two characters before ".log").
StampOf(f) == ParseDay(SubSeq(f, Len(f) - Len(LogExt) - 1, Len(f) - Len(LogExt)))

\* All orders in which os.listdir may return the names of S.
Orderings(S) ==
    { s \in [1..Cardinality(S) -> S] : \A i, j \in 1..Cardinality(S) : i # j => s[i] # s[j] }

Range(s) == { s[i] : i \in 1..Len(s) }

RECURSIVE SumOver(_, _)
SumOver(dir, names) ==
    IF names = {} THEN 0
    ELSE LET f == CHOOSE g \in names : TRUE
         IN  dir[f] + SumOver(dir, names \ {f})

\* The number of lines in all files of a directory.
TotalLines(dir) == SumOver(dir, DOMAIN dir)

\* A directory without files.
EmptyDir == [g \in {} |-> 0]

\* A directory with file f created or replaced by content c / with f removed.
WithFile(dir, f, c) == [g \in DOMAIN dir \cup {f} |-> IF g = f THEN c ELSE dir[g]]
WithoutFile(dir, f) == [g \in DOMAIN dir \ {f} |-> dir[g]]

\* ------------------------------------------------------------------ state
VARIABLES
    now,            \* the calendar day datetime.now() returns
    cursor,         \* content of last_sent_day.txt, or NoCursor when it is absent
    logDir,         \* LOG_DIR: file name -> number of lines
    sentDir,        \* SENT_LOGS_DIR: file name -> number of lines
    pc,             \* the program point of every thread
    nTimers,        \* midnight_loop threads started since the process started
    today,          \* send_missed_days_logs: local today
    last_sent_day,  \* send_missed_days_logs: local last_sent_day
    day_to_send,    \* send_missed_days_logs: local day_to_send
    log_files,      \* send_day_logs: local log_files, in listing order
    idx,            \* send_day_logs: position of the file loops in log_files
    attachments,    \* send_day_logs: local attachments, <<name, lines>> pairs
    wake,           \* midnight_loop: local tomorrow, the day the sleep ends
    date_str,       \* log_message: local date_str
    chan,           \* log_message: parameter channel
    \* history variables: what has happened, for stating the properties
    outcome,        \* per thread: how the send_day_logs call of the day went so far
    cold,           \* per thread: its pass found no cursor file
    delivered,      \* file names attached to an email the transport confirmed
    stalled,        \* earliest day whose delivery failed and was not re-sent since
    passStall,      \* per thread: value of stalled when its pass began
    overlapped      \* a pass in progress began while another was in progress, or has
                    \* seen another begin

diskVars == << cursor, logDir, sentDir >>
passVars == << today, last_sent_day, day_to_send, log_files, idx, attachments >>
histVars == << outcome, cold, delivered, stalled, passStall, overlapped >>
vars == << now, cursor, logDir, sentDir, pc, nTimers, today, last_sent_day, day_to_send,
           log_files, idx, attachments, wake, date_str, chan, outcome, cold, delivered,
           stalled, passStall, overlapped >>

\* Program points of send_missed_days_logs and send_day_logs.
PassPoints == { "today", "cursor", "list", "read", "send", "move", "mark" }

InPass(t) == pc[t] \in PassPoints

\* The process is running (the reactor thread has not left process_forever).
Up == pc[Main] \notin {"down", "exited"}

\* State of a freshly started process: IRCBot() constructed, connected, the
\* reactor waiting for events, no midnight_loop thread yet.  The disk is kept.
Fresh ==
    /\ pc = [t \in Procs |-> IF t = Main THEN "idle" ELSE "unborn"]
    /\ nTimers = 0
    /\ today = [t \in Procs |-> NoDay]
    /\ last_sent_day = [t \in Procs |-> NoDay]
    /\ day_to_send = [t \in Procs |-> NoDay]
    /\ log_files = [t \in Procs |-> << >>]
    /\ idx = [t \in Procs |-> 0]
    /\ attachments = [t \in Procs |-> << >>]
    /\ wake = [t \in Procs |-> NoDay]
    /\ date_str = << >>
    /\ chan = << >>
    /\ outcome = [t \in Procs |-> "none"]
    /\ cold = [t \in Procs |-> FALSE]
    /\ passStall = [t \in Procs |-> NoDay]

\* The first start of the bot on an empty disk.
Init ==
    /\ now = 1
    /\ cursor = NoCursor
    /\ logDir = EmptyDir
    /\ sentDir = EmptyDir
    /\ delivered = {}
    /\ stalled = NoDay
    /\ overlapped = FALSE
    /\ Fresh

\* ------------------------------------------------------------ exceptions
\* No pass other than t's is in progress.
Alone(t) == \A u \in Procs \ {t} : ~InPass(u)

\* An exception raised in thread t and caught nowhere: the locals of t are
\* gone.  In a midnight_loop thread it ends that thread.  In the reactor
\* thread it leaves process_forever, so bot.start() ends and the process
\* exits, taking the daemon threads with it.
Raise(t) ==
    /\ pc' = IF t = Main
             THEN [u \in Procs |-> IF u = Main THEN "exited" ELSE "unborn"]
             ELSE [pc EXCEPT ![t] = "dead"]
    /\ outcome' = [u \in Procs |-> IF u = t \/ t = Main THEN "none" ELSE outcome[u]]
    /\ today' = [u \in Procs |-> IF u = t \/ t = Main THEN NoDay ELSE today[u]]
    /\ last_sent_day' = [u \in Procs |-> IF u = t \/ t = Main THEN NoDay ELSE last_sent_day[u]]
    /\ day_to_send' = [u \in Procs |-> IF u = t \/ t = Main THEN NoDay ELSE day_to_send[u]]
    /\ cold' = [u \in Procs |-> IF u = t \/ t = Main THEN FALSE ELSE cold[u]]
    /\ passStall' = [u \in Procs |-> IF u = t \/ t = Main THEN NoDay ELSE passStall[u]]
    /\ log_files' = [u \in Procs |-> IF u = t \/ t = Main THEN << >> ELSE log_files[u]]
    /\ idx' = [u \in Procs |-> IF u = t \/ t = Main THEN 0 ELSE idx[u]]
    /\ attachments' = [u \in Procs |-> IF u = t \/ t = Main THEN << >> ELSE attachments[u]]
    /\ wake' = IF t = Main THEN [u \in Procs |-> NoDay] ELSE wake
    /\ nTimers' = nTimers
    /\ date_str' = IF t = Main THEN << >> ELSE date_str
    /\ chan' = IF t = Main THEN << >> ELSE chan
    /\ overlapped' = (overlapped /\ t # Main /\ ~Alone(t))

\* ------------------------------------------------------------- the clock
\* Local midnight passes: datetime.now() returns the next calendar day.
Midnight ==
    /\ now < MaxDay
    /\ now' = now + 1
    /\ UNCHANGED << diskVars, pc, nTimers, passVars, wake, date_str, chan, histVars >>

\* ----------------------------------------------------------------- intake
\* on_pubmsg -> log_message, up to and including the read of the clock.
OnPubmsg(channel) ==
    /\ pc[Main] = "idle"
    /\ TotalLines(logDir) + TotalLines(sentDir) < MaxLines
    /\ date_str' = DayStr(now)
    /\ chan' = channel
    /\ pc' = [pc EXCEPT ![Main] = "log_open"]
    /\ UNCHANGED << now, diskVars, nTimers, passVars, wake, histVars >>

\* log_message: open(filename, 'a') and write.  The write succeeds, or raises
\* OSError, which nothing between log_message and process_forever catches.
LogAppend ==
    /\ pc[Main] = "log_open"
    /\ LET f == FileName(chan, date_str)
       IN  \/ /\ logDir' = WithFile(logDir, f, (IF f \in DOMAIN logDir THEN logDir[f] ELSE 0) + 1)
              /\ pc' = [pc EXCEPT ![Main] = "idle"]
              /\ date_str' = << >>
              /\ chan' = << >>
              /\ UNCHANGED << now, cursor, sentDir, nTimers, passVars, wake, outcome, cold,
                              delivered, stalled, passStall, overlapped >>
           \/ /\ Raise(Main)
              /\ UNCHANGED << now, diskVars, delivered, stalled >>

\* on_whoischannels -> start_day_check_thread: the reactor thread itself
\* enters send_missed_days_logs.
OnWhoischannels ==
    /\ pc[Main] = "idle"
    /\ nTimers < MaxTimers
    /\ pc' = [pc EXCEPT ![Main] = "today"]
    /\ UNCHANGED << now, diskVars, nTimers, passVars, wake, date_str, chan, histVars >>

\* -------------------------------------------------------- midnight_loop
\* midnight_loop: now, tomorrow and seconds_until_midnight are computed.
TimerCompute(t) ==
    /\ pc[t] = "loop"
    /\ wake' = [wake EXCEPT ![t] = now + 1]
    /\ pc' = [pc EXCEPT ![t] = "sleep"]
    /\ UNCHANGED << now, diskVars, nTimers, passVars, date_str, chan, histVars >>

\* midnight_loop: time.sleep returns, send_missed_days_logs is entered.
TimerWake(t) ==
    /\ pc[t] = "sleep"
    /\ now >= wake[t]
    /\ wake' = [wake EXCEPT ![t] = NoDay]
    /\ pc' = [pc EXCEPT ![t] = "today"]
    /\ UNCHANGED << now, diskVars, nTimers, passVars, date_str, chan, histVars >>

\* ------------------------------------------------ send_missed_days_logs
\* send_missed_days_logs returns in thread t.  In the reactor thread,
\* start_day_check_thread goes on to start a midnight_loop thread and the
\* handler returns; in a midnight_loop thread the loop starts over.
EndPass(t) ==
    /\ pc' = IF t = Main
             THEN [pc EXCEPT ![Main] = "idle", ![nTimers + 1] = "loop"]
             ELSE [pc EXCEPT ![t] = "loop"]
    /\ nTimers' = IF t = Main THEN nTimers + 1 ELSE nTimers
    /\ today' = [today EXCEPT ![t] = NoDay]
    /\ last_sent_day' = [last_sent_day EXCEPT ![t] = NoDay]
    /\ day_to_send' = [day_to_send EXCEPT ![t] = NoDay]
    /\ cold' = [cold EXCEPT ![t] = FALSE]
    /\ passStall' = [passStall EXCEPT ![t] = NoDay]
    /\ outcome' = [outcome EXCEPT ![t] = "none"]
    /\ overlapped' = (overlapped /\ ~Alone(t))

\* The test of `while day_to_send <= yesterday` in thread t with
\* day_to_send = d: the body is entered, or the pass ends.
LoopTest(t, d) ==
    IF d <= today[t] - 1
    THEN /\ day_to_send' = [day_to_send EXCEPT ![t] = d]
         /\ pc' = [pc EXCEPT ![t] = "list"]
         /\ UNCHANGED << nTimers, today, passStall, overlapped, outcome >>
    ELSE EndPass(t)

\* today = datetime.now().date(); yesterday = today - timedelta(days=1)
PassToday(t) ==
    /\ pc[t] = "today"
    /\ today' = [today EXCEPT ![t] = now]
    /\ pc' = [pc EXCEPT ![t] = "cursor"]
    /\ passStall' = [passStall EXCEPT ![t] = stalled]
    /\ overlapped' = (overlapped \/ \E u \in Procs \ {t} : InPass(u))
    /\ UNCHANGED << now, diskVars, nTimers, last_sent_day, day_to_send, log_files, idx,
                    attachments, wake, date_str, chan, outcome, cold, delivered,
                    stalled >>

\* get_last_sent_day
GetLastSentDay == IF cursor = NoCursor THEN NoDay ELSE ParseDay(cursor)

\* Mutant: a cold start reaches one day further back.
ColdStartDay_TwoBack(yesterday) == yesterday - 2

\* `if last_sent_day is None: last_sent_day = yesterday - timedelta(days=1)`
ColdStartDay(yesterday) == yesterday - 1

\* Mutant: the loop starts at the last sent day itself.
FirstDayToSend_Same(lsd) == lsd

\* day_to_send = last_sent_day + timedelta(days=1)
FirstDayToSend(lsd) == lsd + 1

\* last_sent_day = self.get_last_sent_day(), its default on None,
\* day_to_send = last_sent_day + 1 and the first loop test.
PassCursor(t) ==
    /\ pc[t] = "cursor"
    /\ LET got == GetLastSentDay
           lsd == IF got = NoDay THEN ColdStartDay(today[t] - 1) ELSE got
       IN  /\ LoopTest(t, FirstDayToSend(lsd))
           /\ IF FirstDayToSend(lsd) <= today[t] - 1
              THEN /\ last_sent_day' = [last_sent_day EXCEPT ![t] = lsd]
                   /\ cold' = [cold EXCEPT ![t] = (got = NoDay)]
              ELSE TRUE
    /\ UNCHANGED << now, diskVars, log_files, idx, attachments, wake, date_str, chan,
                    delivered, stalled >>

\* set_last_sent_day(day_to_send); day_to_send += 1; the loop test.
Mark(t) ==
    /\ pc[t] = "mark"
    /\ cursor' = DayStr(day_to_send[t])
    /\ LoopTest(t, day_to_send[t] + 1)
    /\ IF day_to_send[t] + 1 <= today[t] - 1
       THEN UNCHANGED << last_sent_day, cold >>
       ELSE TRUE
    /\ UNCHANGED << now, logDir, sentDir, log_files, idx, attachments, wake, date_str, chan,
                    delivered, stalled >>

\* ---------------------------------------------------------- send_day_logs
\* send_day_logs returns to the loop of send_missed_days_logs: its locals
\* are gone, thread t is at the call of set_last_sent_day.
Return(t, how) ==
    /\ pc' = [pc EXCEPT ![t] = "mark"]
    /\ outcome' = [outcome EXCEPT ![t] = how]
    /\ log_files' = [log_files EXCEPT ![t] = << >>]
    /\ idx' = [idx EXCEPT ![t] = 0]
    /\ attachments' = [attachments EXCEPT ![t] = << >>]

\* Mutant: the listing is not filtered by day.
DayFiles_Unfiltered(dir, day) == DOMAIN dir

\* Mutant: the listing keeps every ".log" file, whatever its day.
DayFiles_AnyDay(dir, day) == { f \in DOMAIN dir : EndsWith(f, LogExt) }

\* The names os.listdir(LOG_DIR) returns that end with f"{day_str}.log".
DayFiles(dir, day) == { f \in DOMAIN dir : EndsWith(f, DayStr(day) \o LogExt) }

\* log_files = [...]; `if not log_files: return`
ListDir(t) ==
    /\ pc[t] = "list"
    /\ LET files == DayFiles(logDir, day_to_send[t])
       IN  IF files = {}
           THEN Return(t, "empty")
           ELSE /\ \E order \in Orderings(files) : log_files' = [log_files EXCEPT ![t] = order]
                /\ idx' = [idx EXCEPT ![t] = 1]
                /\ pc' = [pc EXCEPT ![t] = "read"]
                /\ outcome' = [outcome EXCEPT ![t] = "none"]
                /\ UNCHANGED attachments
    /\ UNCHANGED << now, diskVars, nTimers, today, last_sent_day, day_to_send, wake, date_str,
                    chan, cold, delivered, stalled, passStall, overlapped >>

\* Mutant: a file that cannot be read is skipped and the bundle goes on
\* without it.
ReadFile_SkipUnreadable(t) ==
    /\ pc[t] = "read"
    /\ LET f == log_files[t][idx[t]]
       IN  \E readable \in BOOLEAN :
              /\ readable => f \in DOMAIN logDir
              /\ attachments' = [attachments EXCEPT
                                    ![t] = IF readable THEN Append(@, << f, logDir[f] >>) ELSE @]
              /\ IF idx[t] = Len(log_files[t])
                 THEN /\ pc' = [pc EXCEPT ![t] = "send"]
                      /\ idx' = [idx EXCEPT ![t] = 0]
                 ELSE /\ pc' = pc
                      /\ idx' = [idx EXCEPT ![t] = @ + 1]
              /\ UNCHANGED << nTimers, today, last_sent_day, day_to_send, log_files, wake,
                              date_str, chan, outcome, cold, passStall, overlapped >>
    /\ UNCHANGED << now, diskVars, delivered, stalled >>

\* One iteration of `for filename in log_files: open(filepath, 'rb') ...
\* f.read()`: the file is read into attachments, or open/read raises OSError
\* (always when another thread has moved the file away).
ReadFile(t) ==
    /\ pc[t] = "read"
    /\ LET f == log_files[t][idx[t]]
       IN  \/ /\ f \in DOMAIN logDir
              /\ attachments' = [attachments EXCEPT ![t] = Append(@, << f, logDir[f] >>)]
              /\ IF idx[t] = Len(log_files[t])
                 THEN /\ pc' = [pc EXCEPT ![t] = "send"]
                      /\ idx' = [idx EXCEPT ![t] = 0]
                 ELSE /\ pc' = pc
                      /\ idx' = [idx EXCEPT ![t] = @ + 1]
              /\ UNCHANGED << nTimers, today, last_sent_day, day_to_send, log_files, wake,
                              date_str, chan, outcome, cold, passStall, overlapped >>
           \/ Raise(t)
    /\ UNCHANGED << now, diskVars, delivered, stalled >>

\* stalled after a failed delivery attempt for day d.
StallAt(d) == IF stalled = NoDay \/ d < stalled THEN d ELSE stalled

\* Mutant: the status of the response is not tested.
Confirmed_Always(status_code) == TRUE

\* `if response.status_code == 200`
Confirmed(status_code) == status_code = 200

\* response = self.send_email(...) and the test of response.status_code:
\* the transport answers 200, answers another status, or requests.post
\* raises (connection error).  On 200 the move loop is entered.
SendEmail(t) ==
    /\ pc[t] = "send"
    /\ LET names == { attachments[t][i][1] : i \in 1..Len(attachments[t]) }
           d == day_to_send[t]
       IN  \/ /\ \E status_code \in {200, 500} :
                    /\ delivered' = IF status_code = 200
                                    THEN delivered \cup names
                                    ELSE delivered
                    /\ stalled' = IF status_code # 200
                                  THEN StallAt(d)
                                  ELSE IF stalled = d THEN NoDay ELSE stalled
                    /\ IF Confirmed(status_code)
                          THEN /\ pc' = [pc EXCEPT ![t] = "move"]
                               /\ idx' = [idx EXCEPT ![t] = 1]
                               /\ outcome' = [outcome EXCEPT ![t] = "sent"]
                               /\ UNCHANGED << log_files, attachments >>
                          ELSE Return(t, "email_failed")
              /\ UNCHANGED << nTimers, today, last_sent_day, day_to_send, wake, date_str,
                              chan, cold, passStall, overlapped >>
           \/ /\ Raise(t)
              /\ stalled' = StallAt(d)
              /\ UNCHANGED delivered
    /\ UNCHANGED << now, diskVars >>

\* One iteration of `for filename in log_files: os.rename(src, dst)`: the
\* file is moved to SENT_LOGS_DIR, replacing a file of that name there, or
\* os.rename raises OSError (always when the file is no longer in LOG_DIR).
MoveFile(t) ==
    /\ pc[t] = "move"
    /\ LET f == log_files[t][idx[t]]
       IN  \/ /\ f \in DOMAIN logDir
              /\ sentDir' = WithFile(sentDir, f, logDir[f])
              /\ logDir' = WithoutFile(logDir, f)
              /\ IF idx[t] = Len(log_files[t])
                 THEN Return(t, "sent")
                 ELSE /\ idx' = [idx EXCEPT ![t] = @ + 1]
                      /\ UNCHANGED << pc, outcome, log_files, attachments >>
              /\ UNCHANGED << nTimers, today, last_sent_day, day_to_send, wake, date_str, chan,
                              cold, passStall, overlapped >>
           \/ /\ Raise(t)
              /\ UNCHANGED << logDir, sentDir >>
    /\ UNCHANGED << now, cursor, delivered, stalled >>

\* ------------------------------------------------------------ the process
\* Every thread and every local of the process is gone; the reactor thread
\* is left at program point at.
Reset(at) ==
    /\ pc' = [t \in Procs |-> IF t = Main THEN at ELSE "unborn"]
    /\ nTimers' = 0
    /\ today' = [t \in Procs |-> NoDay]
    /\ last_sent_day' = [t \in Procs |-> NoDay]
    /\ day_to_send' = [t \in Procs |-> NoDay]
    /\ log_files' = [t \in Procs |-> << >>]
    /\ idx' = [t \in Procs |-> 0]
    /\ attachments' = [t \in Procs |-> << >>]
    /\ wake' = [t \in Procs |-> NoDay]
    /\ date_str' = << >>
    /\ chan' = << >>
    /\ outcome' = [t \in Procs |-> "none"]
    /\ cold' = [t \in Procs |-> FALSE]
    /\ passStall' = [t \in Procs |-> NoDay]
    /\ overlapped' = FALSE

\* The process is stopped from outside at any point; the disk is kept.
Kill ==
    /\ Up
    /\ Reset("down")
    /\ UNCHANGED << now, diskVars, delivered, stalled >>

\* `bot = IRCBot(); bot.connect(); bot.start()` on the disk as it was left:
\* the reactor waits for events, no midnight_loop thread exists yet.
Start ==
    /\ ~Up
    /\ Reset("idle")
    /\ UNCHANGED << now, diskVars, delivered, stalled >>

\* ------------------------------------------------------- specification
Next ==
    \/ Midnight
    \/ \E channel \in Channels : OnPubmsg(channel)
    \/ LogAppend
    \/ OnWhoischannels
    \/ \E t \in Timers : TimerCompute(t)
    \/ \E t \in Timers : TimerWake(t)
    \/ \E t \in Procs : PassToday(t)
    \/ \E t \in Procs : PassCursor(t)
    \/ \E t \in Procs : ListDir(t)
    \/ \E t \in Procs : ReadFile(t)
    \/ \E t \in Procs : SendEmail(t)
    \/ \E t \in Procs : MoveFile(t)
    \/ \E t \in Procs : Mark(t)
    \/ Kill
    \/ Start

Spec == Init /\ [][Next]_vars

\* The steps a thread of the process takes by itself, without an event of
\* the IRC connection.
ThreadStep ==
    \/ LogAppend
    \/ \E t \in Timers : TimerCompute(t) \/ TimerWake(t)
    \/ \E t \in Procs :
          PassToday(t) \/ PassCursor(t) \/ ListDir(t) \/ ReadFile(t) \/ SendEmail(t)
             \/ MoveFile(t) \/ Mark(t)

\* Spec with the progress the operating system gives: a thread that can run
\* does run.  Which events the IRC connection delivers (on_pubmsg,
\* on_whoischannels) and when the process is stopped and started is left to
\* the environment; while no event comes the reactor waits in
\* process_forever.
LiveSpec == Spec /\ WF_vars(ThreadStep)

\* ============================================================ properties
\* Steps of thread t, recognised by what they do to its program point
\* (Kill and the exit of the process leave a thread "down" or "unborn").

\* Program points of the loop body of send_missed_days_logs.
DayPoints == { "list", "read", "send", "move", "mark" }

\* t executes set_last_sent_day(day_to_send) and the loop test.
Marks(t) == pc[t] = "mark" /\ pc'[t] \in { "list", "idle", "loop" }

\* send_missed_days_logs returns in t.
Returns(t) == InPass(t) /\ pc'[t] \in { "idle", "loop" }

\* An exception leaves the code of t.
Raises(t) == pc[t] # pc'[t] /\ pc'[t] = (IF t = Main THEN "exited" ELSE "dead")

\* t calls the email transport.
Sends(t) == pc[t] = "send" /\ pc'[t] \in { "move", "mark", "exited", "dead" }

\* The file names in the bundle t has built.
AttachedNames(t) == { attachments[t][i][1] : i \in 1..Len(attachments[t]) }

\* The files in LOG_DIR stamped with day d.
StampedFiles(d) == { f \in DOMAIN logDir : StampOf(f) = d }

\* ------------------------------------------------------------------- C1
\* C1: when the transport answers non-success for day D, the pass stops at
\* once: its next step neither persists a cursor nor stays in the pass.
C1_FailureStopsPass ==
    [][\A t \in Procs :
          (outcome[t] = "email_failed" /\ Marks(t)) => (cursor' = cursor /\ ~InPass(t)')]_vars

\* ------------------------------------------------------------------- C2
\* C2 (for d = D, the day of the cursor itself): when the persisted cursor
\* is at day D, no log file stamped D is left in the active directory.
C2_CursorDayArchived ==
    cursor # NoCursor => StampedFiles(ParseDay(cursor)) = {}

\* ------------------------------------------------------------------- C3
\* C3: a pass that begins while day D is stalled (its delivery failed and
\* it was not delivered since) bundles and delivers no day after D before D
\* has been delivered.
C3_StalledDayRetriedFirst ==
    \A t \in Procs :
        (pc[t] \in { "read", "send", "move" } /\ passStall[t] # NoDay /\ stalled = passStall[t])
            => day_to_send[t] <= passStall[t]

\* ------------------------------------------------------------------- C4
\* C4: no call of the transport carries a file that an earlier, confirmed
\* email already carried.
C4_DeliveredAtMostOnce ==
    [][\A t \in Procs : Sends(t) => AttachedNames(t) \cap delivered = {}]_vars

\* ------------------------------------------------------------------- C5
\* C5: a failing move after the confirmed email is not fatal: the thread
\* goes on to persist the cursor for that day (it stays in the move loop or
\* reaches set_last_sent_day).
C5_ArchivalFailureNotFatal ==
    [][\A t \in Procs :
          (pc[t] = "move" /\ pc'[t] \notin { "down", "unborn" }) => pc'[t] \in { "move", "mark" }]_vars

\* ------------------------------------------------------------------- C6
C6_Step ==
    \A t \in Procs :
        \* the listing of a day without files returns without a bundle
        /\ (pc[t] = "list" /\ pc'[t] \notin { "list", "down", "unborn" }
              /\ StampedFiles(day_to_send[t]) = {})
             => (pc'[t] = "mark" /\ outcome'[t] = "empty" /\ delivered' = delivered)
        \* the transport is only ever called with a bundle of the day's files
        /\ pc'[t] = "send"
             => (attachments'[t] # << >> /\ outcome'[t] # "empty")
        \* the empty day is persisted and the pass goes on with the next day
        /\ (Marks(t) /\ outcome[t] = "empty")
             => /\ cursor' = DayStr(day_to_send[t])
                /\ IF day_to_send[t] + 1 <= today[t] - 1
                      THEN pc'[t] = "list" /\ day_to_send'[t] = day_to_send[t] + 1
                      ELSE ~InPass(t)'

\* C6: for a due day without log files the pass calls no transport, still
\* persists the cursor at that day and continues with the next day.
C6_EmptyDayMarkedWithoutEmail == [][C6_Step]_vars

\* An empty day was persisted and the pass went on to the next day.
C6_Witness ==
    \E t \in Procs :
        /\ pc[t] = "list"
        /\ outcome[t] = "empty"
        /\ cursor = DayStr(day_to_send[t] - 1)

\* ------------------------------------------------------------------- C7
\* A pass that found no cursor file works on yesterday only.
C7_OnlyYesterday ==
    \A t \in Procs :
        (pc'[t] \in DayPoints /\ cold'[t]) => day_to_send'[t] = today'[t] - 1

C8_Step ==
    \A t \in Procs :
        \* no day up to the cursor read at the start of the pass is worked on
        /\ pc'[t] \in DayPoints => day_to_send'[t] > last_sent_day'[t]
        \* a pass that returns, and ran alone, leaves the cursor at yesterday
        /\ (Returns(t) /\ ~overlapped) => cursor' = DayStr(today[t] - 1)

\* C8: passes that run one after another and return leave the cursor at the
\* yesterday of the latest pass, and no pass works on a day at or before the
\* cursor it read when it began.
C8_CursorAtYesterdayNoReprocessing == [][C8_Step]_vars

\* A pass that found a cursor has delivered the second of two missed days
\* and is about to persist it.
C8_Witness ==
    \E t \in Procs :
        /\ pc[t] = "mark"
        /\ outcome[t] = "sent"
        /\ ~cold[t]
        /\ ~overlapped
        /\ day_to_send[t] = today[t] - 1
        /\ last_sent_day[t] < day_to_send[t] - 1

\* ------------------------------------------------------------------- C9
C9_Step ==
    \* a file leaves the active directory only into the archive, unchanged,
    \* and only when a confirmed email carried it
    /\ \A f \in DOMAIN logDir \ DOMAIN logDir' :
          /\ f \in delivered
          /\ f \in DOMAIN sentDir'
          /\ sentDir'[f] = logDir[f]
    /\ \A t \in Procs :
          \* the move loop is entered only with files of a confirmed email
          /\ pc'[t] = "move" => Range(log_files'[t]) \subseteq delivered'
          \* a call of the transport that is not confirmed moves nothing and
          \* is not followed by the move loop
          /\ (Sends(t) /\ ~(AttachedNames(t) \subseteq delivered'))
                => (logDir' = logDir /\ sentDir' = sentDir /\ pc'[t] # "move")

\* C9: a file is moved to the archive only after the transport confirmed an
\* email that contained it; a refused email moves nothing.
C9_MoveOnlyAfterConfirmation == [][C9_Step]_vars

\* The transport refused the email of a day whose files are still in the
\* active directory, while an earlier delivery is in the archive.
C9_Witness ==
    /\ DOMAIN sentDir # {}
    /\ \E t \in Procs :
          /\ pc[t] = "mark"
          /\ outcome[t] = "email_failed"
          /\ StampedFiles(day_to_send[t]) # {}

\* ------------------------------------------------------------------ C10
\* The scheduler is working on day d or has persisted a cursor at or after d.
Scheduled(d) ==
    \/ cursor # NoCursor /\ d <= ParseDay(cursor)
    \/ \E t \in Procs : pc[t] \in DayPoints /\ day_to_send[t] = d

\* C10 (its last part): intake appends no line to a file of a day that the
\* scheduler is processing or has already processed.
C10_IntakeNeverTouchesSchedulerDay ==
    [][(pc[Main] = "log_open" /\ pc'[Main] = "idle") => ~Scheduled(ParseDay(date_str))]_vars

\* ------------------------------------------------------------------ C11
C11_Step ==
    \A t \in Procs :
        \* the listing of day D is exactly the files of LOG_DIR stamped D
        /\ (pc[t] = "list" /\ pc'[t] = "read")
              => Range(log_files'[t]) = StampedFiles(day_to_send[t])
        \* the bundle holds listed files only, each stamped D, and D is
        \* before the today of the pass, hence before the current day
        /\ pc'[t] \in { "read", "send", "move" }
              => /\ { attachments'[t][i][1] : i \in 1..Len(attachments'[t]) }
                       \subseteq Range(log_files'[t])
                 /\ \A f \in Range(log_files'[t]) : StampOf(f) = day_to_send'[t]
                 /\ day_to_send'[t] < today'[t]
                 /\ today'[t] <= now'
        \* the bundle handed to the transport is the whole listing
        /\ pc'[t] = "send"
              => { attachments'[t][i][1] : i \in 1..Len(attachments'[t]) }
                    = Range(log_files'[t])

\* C11: the bundle built for day D holds exactly the files of the active
\* directory stamped D (those the listing found), never a file stamped with
\* another day, never the file of today, and D is always before today.
C11_BundleIsExactlyDayFiles == [][C11_Step]_vars

\* A bundle is ready for the transport while the active directory also
\* holds a file of the current day.
C11_Witness ==
    \E t \in Procs :
        /\ pc[t] = "send"
        /\ attachments[t] # << >>
        /\ \E f \in DOMAIN logDir : StampOf(f) = now

\* ------------------------------------------------------------------ C12
\* C12: no failure of a pass ends a midnight_loop thread: a thread that was
\* started is in its loop, asleep or in a pass, never ended by an exception.
C12_TimerSurvivesFailures ==
    \A t \in Timers : pc[t] # "dead"

\* ------------------------------------------------------------------ C13
\* C13: an I/O failure of the append in log_message does not leave the
\* message handler: the step of the append leaves the reactor thread waiting
\* for the next event, never out of process_forever.
C13_IntakeFailureStaysInHandler ==
    [][pc[Main] = "log_open" => pc'[Main] # "exited"]_vars

\* ------------------------------------------------------------------ C14
\* C14: the file log_message appends a line to is the file of its channel
\* alone: no other channel has the same file name for that day.
C14_DistinctChannelsDistinctFiles ==
    [][(pc[Main] = "log_open" /\ pc'[Main] = "idle")
          => \A c \in Channels \ {chan} : FileName(c, date_str) # FileName(chan, date_str)]_vars

\* ------------------------------------------------------------------ C15
\* C15: on every start of the process the catch-up scheduler is invoked:
\* whenever the reactor waits for events and no start-up pass has run yet,
\* the reactor thread eventually enters send_missed_days_logs (unless the
\* process is stopped first).
C15_StartupCatchUp ==
    [](Up /\ nTimers = 0 /\ ~InPass(Main) => <>(InPass(Main) \/ ~Up))

\* ------------------------------------------------------------------ C16
C16_Step ==
    \A t \in Procs :
        \* the day of every iteration lies in the range read at the start
        /\ pc'[t] \in DayPoints
              => (last_sent_day'[t] < day_to_send'[t] /\ day_to_send'[t] <= today'[t] - 1)
        \* and every iteration moves one day on, so there are at most
        \* yesterday - cursor of them
        /\ (Marks(t) /\ InPass(t)') => day_to_send'[t] = day_to_send[t] + 1
        \* the pass ends by exhausting the range, or on a delivery failure
        \* (the bundle cannot be read, the transport fails)
        /\ (InPass(t) /\ ~InPass(t)' /\ pc'[t] \notin { "down", "unborn" })
              => \/ Returns(t)
                 \/ Raises(t) /\ pc[t] \in { "read", "send" }

\* C16: the day loop of a pass runs at most yesterday - cursor iterations
\* and the pass ends either by exhausting the range or on a delivery
\* failure.
C16_PassEndsByRangeOrDeliveryFailure == [][C16_Step]_vars

\* ------------------------------------------------------------------ C17
C17_Step ==
    \A t \in Procs :
        \* a read that fails ends the pass on the spot: nothing is sent,
        \* nothing is moved, the cursor is left as it was
        /\ (pc[t] = "read" /\ Raises(t))
              => /\ ~InPass(t)'
                 /\ cursor' = cursor
                 /\ logDir' = logDir
                 /\ sentDir' = sentDir
                 /\ delivered' = delivered
        \* the transport is only called with every listed file in the bundle
        /\ Sends(t) => AttachedNames(t) = Range(log_files[t])
        \* from the read loop the thread goes nowhere but to the transport
        /\ (pc[t] = "read" /\ pc'[t] \in PassPoints) => pc'[t] \in { "read", "send" }

\* C17: when a file of a due day cannot be read, no email (and no partial
\* bundle) is sent for the day, no file is moved and the cursor is not
\* advanced in that pass.
C17_ReadFailureFailsTheDay == [][C17_Step]_vars

\* A midnight_loop thread was ended by a read failure (no transport call
\* has failed or been confirmed so far) and log files are still in the
\* active directory.
C17_Witness ==
    \E t \in Timers :
        /\ pc[t] = "dead"
        /\ delivered = {}
        /\ stalled = NoDay
        /\ DOMAIN logDir # {}
        /\ DOMAIN sentDir = {}

\* ------------------------------------------------------------------ C18
\* The midnight_loop threads that are running.
LiveTimers == { t \in Timers : pc[t] \in { "loop", "sleep" } \cup PassPoints }

\* C18: scheduler invocations are serialized: at most one midnight_loop
\* thread exists and at most one thread is inside send_missed_days_logs.
C18_SchedulerSerialized ==
    /\ Cardinality(LiveTimers) <= 1
    /\ Cardinality({ t \in Procs : InPass(t) }) <= 1

\* ------------------------------------------------------------------ C19
\* C19: the persisted cursor never decreases and never reaches today or
\* later: every write that changes last_sent_day.txt puts a later day there
\* than the one it held, and a day before the current one.
C19_CursorNeverDecreases ==
    [][cursor' # cursor
          => /\ cursor' # NoCursor
             /\ cursor # NoCursor => ParseDay(cursor) < ParseDay(cursor')
             /\ ParseDay(cursor') < now']_vars

\* ------------------------------------------------------------------ C20
\* C20: whatever arrives in the archive is what was emailed: a file that
\* enters SENT_LOGS_DIR, or changes there, has the content that the thread
\* moving it attached under that name to its confirmed email.
C20_ArchiveEqualsEmailed ==
    [][\A f \in DOMAIN sentDir' :
          (f \notin DOMAIN sentDir \/ sentDir'[f] # sentDir[f])
             => \E t \in Procs :
                   /\ pc[t] = "move"
                   /\ \E i \in 1..Len(attachments[t]) : attachments[t][i] = << f, sentDir'[f] >>]_vars

====
